---- MODULE Spec2Model ----
(***************************************************************************)
(* A model of the research-mate web client: the session store              *)
(* (AuthProvider), the HTTP gateway (ApiClient), the route-bound pages and *)
(* the graph renderer (PaperGraph).                                        *)
(*                                                                         *)
(* The specifications of the module:                                       *)
(*   Spec      the running application: session store, pages, requests     *)
(*   FairSpec  a logged-in user's browsing, every request answered         *)
(*   SpecStore the session store's updateProfile and logout called directly*)
(*   SpecApi   ApiClient.request applied to every kind of HTTP response    *)
(*   SpecGraph PaperGraph applied to every bounded node list and edge list *)
(***************************************************************************)
EXTENDS Integers, Sequences, FiniteSets, TLC

VARIABLES
    \* ---- the running application (Spec) ----
    user,               \* AuthProvider's user state: a User or NoUser
    ls,                 \* localStorage's "user" entry: JSON text, or NoEntry
    persisted,          \* the object last handed to localStorage.setItem (NoUser: none, or removed)
    phase,              \* "mounting": first render done, effects not yet run; "restored":
                        \* the restored user rendered, effects not yet run; "running"
    page,               \* the mounted route
    local,              \* the useState values of the mounted page
    navTarget,          \* the route of a router.push not yet carried out, or "none"
    inflight,           \* the API requests awaiting their response, in start order
    latestFetch,        \* the mounted page's most recently started fetch: none/pending/succeeded/failed
    last,               \* what the last step did: operation, return value, calls issued, alerts
    \* ---- the HTTP gateway (SpecApi) ----
    apiMethod,          \* the ApiClient method invoked, or "none"
    apiResponse,        \* the HTTP response fetch() produced for it
    apiOutcome,         \* how the returned promise settled
    apiSent,            \* the HTTP requests the invocation handed to fetch()
    \* ---- the graph renderer (SpecGraph) ----
    nodes,              \* props.nodes
    edges,              \* props.edges
    rendered,           \* whether PaperGraph has rendered these props
    allNodePositions,   \* the laid-out nodes
    lines               \* per edge: the <line> drawn, or NullObject

appVars   == <<user, ls, persisted, phase, page, local, navTarget, inflight,
               latestFetch, last>>
apiVars   == <<apiMethod, apiResponse, apiOutcome, apiSent>>
graphVars == <<nodes, edges, rendered, allNodePositions, lines>>
vars      == <<appVars, apiVars, graphVars>>

Null      == "null"        \* JavaScript null, where the other values are strings
Undefined == "undefined"   \* a string field the object does not have
NullObject      == [ null |-> TRUE ]        \* null, where the other values are objects
UndefinedObject == [ undefined |-> TRUE ]   \* undefined, where the other values are objects

(***************************************************************************)
(* ApiClient (src/frontend/lib/api.ts)                                     *)
(***************************************************************************)

\* The methods of ApiClient; each one returns this.request(...).
ApiMethods ==
    { "addToCalendar", "register", "login", "getAdvice", "acceptInterestChange",
      "acceptLevelChange", "getTodayRecommendations",
      "getTodayRecommendationsRelations", "requestPaper", "getPapersHistory",
      "getPaperDetail", "updateProfile", "sharePaperToKakao",
      "addPaperByArxivId", "chatWithPaper" }

\* The default message of api.ts line 39 (a Korean text: "the API request failed").
DefaultErrorMessage == "API request failed (default message)"
\* The message of the SyntaxError response.json() rejects with.
JsonSyntaxError     == "SyntaxError: Unexpected token in JSON"

\* The detail field of an error body: absent, empty, or a text.
Details  == { Undefined, "", "detail-A", "detail-B" }
\* The rest of a JSON body: the data the endpoint answers with.
Payloads == { Undefined, "payload-A" }

\* What the body of a response can be: text that is not JSON (an HTML or
\* plain-text error page, an empty body), or a JSON object.
JsonBody(d, p) == [ json |-> TRUE, detail |-> d, payload |-> p ]
NotJsonBody    == [ json |-> FALSE, detail |-> Undefined, payload |-> Undefined ]
Bodies == { NotJsonBody } \cup { JsonBody(d, p) : d \in Details, p \in Payloads }

\* The HTTP responses fetch() resolves with.
Responses == [ ok : BOOLEAN, body : Bodies ]

Resolved(v) == [ state |-> "resolved", value |-> v, message |-> Undefined ]
Rejected(m) == [ state |-> "rejected", value |-> Undefined, message |-> m ]

\* response.json(): parses the body, rejecting when it is not JSON.
ResponseJson(response) ==
    IF response.body.json
        THEN Resolved([ detail |-> response.body.detail, payload |-> response.body.payload ])
        ELSE Rejected(JsonSyntaxError)

\* JavaScript truthiness of a string-or-undefined value.
Truthy(d) == d # Undefined /\ d # ""

\* ApiClient.request, after fetch() has resolved with `response`.
request(response) ==
    LET parsed == ResponseJson(response) IN
    IF ~response.ok
        THEN IF parsed.state = "rejected"
                THEN parsed
                ELSE Rejected(IF Truthy(parsed.value.detail)
                                 THEN parsed.value.detail
                                 ELSE DefaultErrorMessage)
        ELSE parsed

\* Every method of ApiClient returns the promise of this.request.
ApiCall(method, response) == request(response)

\* The HTTP verb of each method's request: the method option, GET without one.
Verb(method) ==
    CASE method \in { "getAdvice", "getTodayRecommendations",
                      "getTodayRecommendationsRelations", "getPapersHistory",
                      "getPaperDetail" } -> "GET"
      [] method = "updateProfile" -> "PUT"
      [] OTHER -> "POST"

\* The endpoint of each method as written in its template literal, split at
\* the slashes; "${userId}" and "${paperId}" are the interpolated arguments.
Paths(method) ==
    CASE method = "addToCalendar"           -> << "add-to-calendar" >>
      [] method = "register"                -> << "auth", "register" >>
      [] method = "login"                   -> << "auth", "login" >>
      [] method = "getAdvice"               -> << "${userId}", "advice" >>
      [] method = "acceptInterestChange"    -> << "${userId}", "advice", "accept-interest" >>
      [] method = "acceptLevelChange"       -> << "${userId}", "advice", "accept-level" >>
      [] method = "getTodayRecommendations" -> << "${userId}", "recommendations", "today" >>
      [] method = "getTodayRecommendationsRelations" ->
                            << "${userId}", "recommendations", "today", "relations1" >>
      [] method = "requestPaper"   -> << "${userId}", "recommendations", "request-paper1" >>
      [] method = "getPapersHistory"        -> << "${userId}", "papers", "history" >>
      [] method = "getPaperDetail"          -> << "papers", "${paperId}", "${userId}" >>
      [] method = "updateProfile"           -> << "users", "${userId}" >>
      [] method = "sharePaperToKakao"       -> << "papers", "${paperId}", "share-kakao" >>
      [] method = "addPaperByArxivId"       -> << "papers", "add" >>
      [] method = "chatWithPaper"           -> << "papers", "${paperId}", "chat" >>

\* A copy-and-paste slip: accept-level posted to accept-interest's endpoint
\* (C11 must tell it from Template).
TemplateCopied(method) ==
    IF method = "acceptLevelChange" THEN Paths("acceptInterestChange") ELSE Paths(method)

\* The path template of the method's endpoint.
Template(method) == Paths(method)

\* The numbers a method is called with.
ApiArgs == [ userId : { 1, 2 }, paperId : { 7, 8 } ]

\* The template literal evaluated: each argument converted to its text.
Fill(template, a) ==
    [ i \in 1..Len(template) |->
        CASE template[i] = "${userId}"  -> ToString(a.userId)
          [] template[i] = "${paperId}" -> ToString(a.paperId)
          [] OTHER -> template[i] ]

\* What request() hands to fetch(): it calls fetch once, and each method
\* calls request once.
Fetches(method, a) ==
    << [ verb |-> Verb(method), path |-> Fill(Template(method), a) ] >>

ApiInit ==
    /\ apiMethod = "none"
    /\ apiResponse = NullObject
    /\ apiOutcome = NullObject
    /\ apiSent = << >>

\* One invocation of an ApiClient method, answered by `response`.
ApiInvoke(method, response) ==
    /\ apiMethod' = method
    /\ apiResponse' = response
    /\ apiOutcome' = ApiCall(method, response)
    /\ \E a \in ApiArgs : apiSent' = Fetches(method, a)

(***************************************************************************)
(* PaperGraph (src/frontend/components/paper-graph.tsx)                    *)
(***************************************************************************)

MaxNodes == 4
MaxEdges == 1

NodeIds   == { 1, 2 }
EdgeEnds  == { 1, 2, 3 }     \* 3 is the id of no node
NodeTypes == { "recommended", "common_reference" }
Titles    == { "Paper" }

Node == [ id : NodeIds, title : Titles, type : NodeTypes ]
Edge == [ source : EdgeEnds, target : EdgeEnds, type : { "cites" }, is_influential : BOOLEAN ]

SeqsUpTo(S, n) == UNION { [ 1..k -> S ] : k \in 0..n }
NodeLists == SeqsUpTo(Node, MaxNodes)
EdgeLists == SeqsUpTo(Edge, MaxEdges)

\* Array.prototype.filter
RECURSIVE Filter(_, _)
Filter(s, T) ==
    IF s = <<>> THEN <<>>
    ELSE IF Head(s).type = T THEN <<Head(s)>> \o Filter(Tail(s), T)
                             ELSE Filter(Tail(s), T)

recommendedNodes(ns) == Filter(ns, "recommended")
commonRefNodes(ns)   == Filter(ns, "common_reference")

RowStartX   == 100
RowSpacingX == 120
RowY        == 150
CentreX     == 200
TopY        == 50

Positioned(node, x, y) ==
    [ id |-> node.id, title |-> node.title, type |-> node.type, x |-> x, y |-> y ]

\* A row whose first node is one spacing further right (C20 must tell it from
\* recommendedPositions).
recommendedPositionsFromOne(ns) ==
    LET r == recommendedNodes(ns) IN
    [ i \in 1..Len(r) |-> Positioned(r[i], RowStartX + i * RowSpacingX, RowY) ]

\* idx is the 0-based index of Array.prototype.map
recommendedPositions(ns) ==
    LET r == recommendedNodes(ns) IN
    [ i \in 1..Len(r) |-> Positioned(r[i], RowStartX + (i - 1) * RowSpacingX, RowY) ]

commonRefPositions(ns) ==
    LET c == commonRefNodes(ns) IN
    [ i \in 1..Len(c) |-> Positioned(c[i], CentreX, TopY) ]

AllNodePositions(ns) == recommendedPositions(ns) \o commonRefPositions(ns)

\* Array.prototype.find: the first element with the id, or undefined.
getNodePosition(positions, id) ==
    LET hits == { i \in 1..Len(positions) : positions[i].id = id } IN
    IF hits = {} THEN UndefinedObject
    ELSE positions[CHOOSE i \in hits : \A j \in hits : i <= j]

InfluentialWidth == 3
PlainWidth       == 2

\* A line drawn from the target to the source (C10 must tell it from DrawEdge).
DrawEdgeReversed(positions, edge) ==
    LET sourcePos == getNodePosition(positions, edge.source)
        targetPos == getNodePosition(positions, edge.target)
    IN  IF sourcePos = UndefinedObject \/ targetPos = UndefinedObject
            THEN NullObject
            ELSE [ x1 |-> targetPos.x, y1 |-> targetPos.y,
                   x2 |-> sourcePos.x, y2 |-> sourcePos.y,
                   strokeWidth |-> IF edge.is_influential THEN InfluentialWidth
                                                          ELSE PlainWidth ]

\* The element edges.map returns for one edge: a <line>, or null.
DrawEdge(positions, edge) ==
    LET sourcePos == getNodePosition(positions, edge.source)
        targetPos == getNodePosition(positions, edge.target)
    IN  IF sourcePos = UndefinedObject \/ targetPos = UndefinedObject
            THEN NullObject
            ELSE [ x1 |-> sourcePos.x, y1 |-> sourcePos.y,
                   x2 |-> targetPos.x, y2 |-> targetPos.y,
                   strokeWidth |-> IF edge.is_influential THEN InfluentialWidth
                                                          ELSE PlainWidth ]

GraphInit ==
    /\ nodes \in NodeLists
    /\ edges \in EdgeLists
    /\ rendered = FALSE
    /\ allNodePositions = <<>>
    /\ lines = <<>>

\* One render of PaperGraph with the props (nodes, edges).
PaperGraph ==
    /\ ~rendered
    /\ rendered' = TRUE
    /\ allNodePositions' = AllNodePositions(nodes)
    /\ lines' = [ i \in 1..Len(edges) |-> DrawEdge(AllNodePositions(nodes), edges[i]) ]
    /\ UNCHANGED <<nodes, edges>>

GraphIdle ==
    /\ nodes = <<>>
    /\ edges = <<>>
    /\ rendered = FALSE
    /\ allNodePositions = <<>>
    /\ lines = <<>>

(***************************************************************************)
(* The data of the application                                             *)
(***************************************************************************)

UserIds   == { 1, 2 }
Interests == { "NLP", "RAG" }
Levels    == { "beginner", "advanced" }
UsernameOf(id) == IF id = 1 THEN "alice" ELSE "bob"

\* interface User (auth-context.tsx)
User ==
    { [ id |-> i, username |-> UsernameOf(i), interest |-> t, level |-> l ] :
        i \in UserIds, t \in Interests, l \in Levels }
NoUser == NullObject

\* JSON.stringify of a User: the text, as its sequence of keys and values.
JSONstringify(u) ==
    << "id", u.id, "username", u.username, "interest", u.interest, "level", u.level >>

\* The value of the key k in a JSON text of an object.
JSONfield(text, k) ==
    text[(CHOOSE i \in 1..Len(text) : i % 2 = 1 /\ text[i] = k) + 1]

\* A parse that confuses two keys (C2 must tell it from JSON.parse).
JSONparseSwapped(text) ==
    [ id |-> JSONfield(text, "id"), username |-> JSONfield(text, "username"),
      interest |-> JSONfield(text, "level"), level |-> JSONfield(text, "interest") ]

\* JSON.parse of such a text.
JSONparse(text) ==
    [ id |-> JSONfield(text, "id"), username |-> JSONfield(text, "username"),
      interest |-> JSONfield(text, "interest"), level |-> JSONfield(text, "level") ]

NoEntry == << >>      \* localStorage.getItem("user") returns null

\* The routes, named by their page.
ProtectedPages == { "home", "recommendations", "history", "paper", "chat", "mypage" }
PublicPages    == { "login", "signup" }
Pages          == ProtectedPages \cup PublicPages
\* The protected pages whose mount effect fetches.
FetchingPages  == { "home", "recommendations", "history", "paper", "chat" }

\* The texts the pages show (the source's are Korean).
AdviceFetchError   == "advice fetch failed"
HistoryFetchError  == "history fetch failed"
RecsFetchError     == "recommendations fetch failed"
PaperFetchError    == "paper fetch failed"
LoginEmptyError    == "enter id and password"
LoginFailedError   == "id or password is wrong"
SignupEmptyError   == "fill in every field"
SignupMismatch     == "passwords do not match"
SignupNoInterest   == "enter an interest"
SignupNoDifficulty == "select a difficulty"
SignupFailedError  == "the id already exists"

\* The useState initial values of each page.
InitLocal(p) ==
    CASE p = "home" ->
            [ advice |-> NullObject, isLoading |-> TRUE, error |-> Null,
              isAddingToCalendar |-> FALSE, arxivId |-> "", isAddingPaper |-> FALSE ]
      [] p \in { "recommendations", "history" } ->
            [ papers |-> << >>, isLoading |-> TRUE, error |-> Null ]
      [] p = "paper" ->
            [ paper |-> NullObject, isLoading |-> TRUE, error |-> Null ]
      [] p = "chat" ->
            [ paperTitle |-> "", messages |-> << >>, input |-> "", isLoading |-> FALSE,
              isFetchingPaper |-> TRUE, error |-> Null ]
      [] p = "mypage" ->
            [ interestInput |-> "", difficulty |-> "", hasChanges |-> FALSE ]
      [] p \in { "login", "signup" } ->
            [ error |-> "" ]     \* the input fields: see LoginForms, SignupForms

\* What a step is observed to do.
\* (outcome: how the awaited API call settled, for a step that resumes after one)
\* (form: the field values a submit handler read)
ObsSettled(op, ret, issued, alerts, outcome) ==
    [ op |-> op, ret |-> ret, issued |-> issued, alerts |-> alerts, outcome |-> outcome,
      form |-> NullObject ]
Obs(op, ret, issued, alerts) == ObsSettled(op, ret, issued, alerts, NullObject)
ObsSubmit(op, issued, form) == [ Obs(op, "none", issued, << >>) EXCEPT !.form = form ]
NoObs == Obs("none", "none", << >>, << >>)

\* An API request in flight: the method, the arguments sent, the values its
\* continuation closed over (cap: the user of the render that started it, for
\* a continuation that reads it),
\* whether its page is still mounted, and whether it is that page's latest fetch.
Request(kind, cap, arg, latest) ==
    [ kind |-> kind, cap |-> cap, arg |-> arg, live |-> TRUE, latest |-> latest ]
NoArg == [ interest |-> Undefined, level |-> Undefined, text |-> Undefined, user_id |-> 0 ]

MaxInFlight == 2

\* The part of the render's user that the continuation of a session update
\* reads: { ...user, interest } takes every field but interest from it, and so
\* on (the fields it overwrites are left out).
Closure(kind, u) ==
    CASE kind = "acceptInterestChange" -> [ u EXCEPT !.interest = Undefined ]
      [] kind = "acceptLevelChange"    -> [ u EXCEPT !.level = Undefined ]
      [] kind = "updateProfile"        -> [ u EXCEPT !.interest = Undefined, !.level = Undefined ]

\* The requests in flight are a collection without an order (any of them can
\* settle next); the sequence keeps them sorted by method.
KindOrder ==
    << "login", "register", "updateProfile", "acceptInterestChange", "acceptLevelChange",
       "addToCalendar", "addPaperByArxivId", "requestPaper", "chatWithPaper",
       "getAdvice", "getTodayRecommendations", "getPapersHistory", "getPaperDetail" >>
Rank(kind) == CHOOSE i \in 1..Len(KindOrder) : KindOrder[i] = kind
Add(reqs, r) ==
    LET before == { i \in 1..Len(reqs) : Rank(reqs[i].kind) <= Rank(r.kind) }
        n == Cardinality(before)
    IN  SubSeq(reqs, 1, n) \o << r >> \o SubSeq(reqs, n + 1, Len(reqs))

AppInit ==
    /\ user = NoUser
    /\ ls = NoEntry
    /\ persisted = NoUser
    /\ phase = "mounting"
    /\ page = "home"
    /\ local = InitLocal("home")
    /\ navTarget = "none"
    /\ inflight = << >>
    /\ latestFetch = "none"
    /\ last = NoObs

(***************************************************************************)
(* Page effects, mounting and navigation                                   *)
(***************************************************************************)

\* The ApiClient method a page's mount effect fetches with.
FetchKind(p) ==
    CASE p = "home"            -> "getAdvice"
      [] p = "recommendations" -> "getTodayRecommendations"
      [] p = "history"         -> "getPapersHistory"
      [] p \in { "paper", "chat" } -> "getPaperDetail"
      [] OTHER                 -> "none"

\* A fetch start that keeps the old error (C8 must tell it from StartFetch).
StartFetchKeepingError(p, loc) ==
    IF p = "chat" THEN [ loc EXCEPT !.isFetchingPaper = TRUE ]
                  ELSE [ loc EXCEPT !.isLoading = TRUE ]

\* The first lines of fetchAdvice, fetchRecommendations, fetchHistory,
\* fetchPaperDetail, fetchPaperInfo: raise the busy flag, clear the error.
StartFetch(p, loc) ==
    IF p = "chat" THEN [ loc EXCEPT !.isFetchingPaper = TRUE, !.error = Null ]
                  ELSE [ loc EXCEPT !.isLoading = TRUE, !.error = Null ]

\* The requests already in flight, none of them any more the latest fetch.
NotLatest(reqs) ==
    [ i \in 1..Len(reqs) |-> [ reqs[i] EXCEPT !.latest = FALSE ] ]

\* MyPage's second effect: whether the inputs differ from the session user.
HasChanges(interestInput, difficulty, u) ==
    interestInput # u.interest \/ difficulty # u.level

\* Effects that do not push /login for a null user (C4 must tell them from
\* RunEffects).
RunEffectsStaying(u, p, loc, nav, reqs, lf) ==
    IF p \in PublicPages \/ u = NoUser
        THEN [ local |-> loc, nav |-> nav, inflight |-> reqs, latest |-> lf, issued |-> << >> ]
    ELSE IF p = "mypage"
        THEN [ local |-> [ interestInput |-> u.interest, difficulty |-> u.level,
                           hasChanges |-> HasChanges(u.interest, u.level, u) ],
               nav |-> nav, inflight |-> reqs, latest |-> lf, issued |-> << >> ]
    ELSE [ local |-> StartFetch(p, loc), nav |-> nav,
           inflight |-> Add(NotLatest(reqs),
                            Request(FetchKind(p), NoUser, [ NoArg EXCEPT !.user_id = u.id ], TRUE)),
           latest |-> "pending", issued |-> << FetchKind(p) >> ]

\* The page's useEffect bodies, run with the user `u` of the current render:
\* the values of local, navTarget, inflight, latestFetch afterwards and the
\* calls issued.
RunEffects(u, p, loc, nav, reqs, lf) ==
    IF p \in PublicPages
        THEN [ local |-> loc, nav |-> nav, inflight |-> reqs, latest |-> lf, issued |-> << >> ]
    ELSE IF u = NoUser
        THEN [ local |-> loc, nav |-> "login", inflight |-> reqs, latest |-> lf,
               issued |-> << >> ]
    ELSE IF p = "mypage"
        THEN [ local |-> [ interestInput |-> u.interest, difficulty |-> u.level,
                           hasChanges |-> HasChanges(u.interest, u.level, u) ],
               nav |-> nav, inflight |-> reqs, latest |-> lf, issued |-> << >> ]
    ELSE [ local |-> StartFetch(p, loc), nav |-> nav,
           inflight |-> Add(NotLatest(reqs),
                               Request(FetchKind(p), NoUser, [ NoArg EXCEPT !.user_id = u.id ], TRUE)),
           latest |-> "pending", issued |-> << FetchKind(p) >> ]

\* AuthProvider's mount effect: restore the session from localStorage.
RestoredUser(stored) == IF stored # NoEntry THEN JSONparse(stored) ELSE NoUser

\* The effects of the first commit: the page's (a child's run first), then
\* AuthProvider's, whose setUser makes the page render again.
MountEffects ==
    /\ phase = "mounting"
    /\ LET e == RunEffects(user, page, local, navTarget, inflight, latestFetch) IN
        /\ local' = e.local
        /\ navTarget' = e.nav
        /\ inflight' = e.inflight
        /\ latestFetch' = e.latest
        /\ last' = Obs("mount", "none", e.issued, << >>)
    /\ user' = RestoredUser(ls)
    /\ phase' = IF ls # NoEntry THEN "restored" ELSE "running"
    /\ UNCHANGED <<ls, persisted, page>>

\* The page's effects run again after the commit of the restored user.
RestoredEffects ==
    /\ phase = "restored"
    /\ LET e == RunEffects(user, page, local, navTarget, inflight, latestFetch) IN
        /\ local' = e.local
        /\ navTarget' = e.nav
        /\ inflight' = e.inflight
        /\ latestFetch' = e.latest
        /\ last' = Obs("effect", "none", e.issued, << >>)
    /\ phase' = "running"
    /\ UNCHANGED <<user, ls, persisted, page>>

\* The requests whose continuation reaches beyond the page that started them
\* (into the session store or the router).
SessionKinds == { "login", "register", "updateProfile", "acceptInterestChange",
                  "acceptLevelChange" }

\* The bounds on what the user starts: so many requests in flight, and so
\* many of them requests of the session store's operations. (The fetches of
\* the effects are not bounded.)
MaxSessionInFlight == 1
Room(kind) ==
    /\ Len(inflight) < MaxInFlight
    /\ kind \in SessionKinds =>
          Cardinality({ i \in 1..Len(inflight) : inflight[i].kind \in SessionKinds })
              < MaxSessionInFlight

\* The requests in flight once their page has unmounted: those whose
\* continuation reaches beyond the page, and the chat questions (nothing
\* cancels them: they are in flight until answered, and the answer reaches an
\* unmounted component). The other requests of a page, whose answers change
\* nothing any more, are left out from here on.
RECURSIVE Orphaned(_)
Orphaned(reqs) ==
    IF reqs = << >> THEN << >>
    ELSE IF Head(reqs).kind \in SessionKinds \cup { "chatWithPaper" }
        THEN << [ Head(reqs) EXCEPT !.live = FALSE ] >> \o Orphaned(Tail(reqs))
        ELSE Orphaned(Tail(reqs))

\* The router carries out a push: the old page unmounts (React ignores the
\* state setters of an unmounted component), the new one mounts and its
\* effects run.
RouteTo(target) ==
    /\ IF target = page
          THEN /\ navTarget' = "none"
               /\ last' = NoObs
               /\ UNCHANGED <<page, local, inflight, latestFetch>>
          ELSE LET e == RunEffects(user, target, InitLocal(target), "none",
                                   Orphaned(inflight), "none")
               IN  /\ page' = target
                   /\ local' = e.local
                   /\ navTarget' = e.nav
                   /\ inflight' = e.inflight
                   /\ latestFetch' = e.latest
                   /\ last' = Obs("effect", "none", e.issued, << >>)
    /\ UNCHANGED <<user, ls, persisted, phase>>

\* The navigation an effect or a continuation pushed.
Navigate ==
    /\ phase = "running"
    /\ navTarget # "none"
    /\ RouteTo(navTarget)

\* The browser reloads the page: every component state and every pending
\* continuation is gone, localStorage stays.
Reload ==
    /\ phase = "running"
    /\ user' = NoUser
    /\ local' = InitLocal(page)
    /\ navTarget' = "none"
    /\ inflight' = << >>
    /\ latestFetch' = "none"
    /\ phase' = "mounting"
    /\ last' = NoObs
    /\ UNCHANGED <<ls, persisted, page>>

\* `if (!user) return null` at the top of every protected page's render.
Renders(p, u) == ~(p \in ProtectedPages /\ u = NoUser)

\* A user event or a response is handled once a pushed navigation is done.
Quiet == phase = "running" /\ navTarget = "none"

\* A router.push from a rendered control, and the navigation it causes (the
\* click handler does nothing else).
Push(target) ==
    /\ Quiet
    /\ target # page
    /\ RouteTo(target)

\* NavigationHeader: the logo and the profile icon (every page that renders it).
HeaderPush ==
    /\ page \in ProtectedPages
    /\ user # NoUser
    /\ \E t \in { "home", "mypage" } : Push(t)

(***************************************************************************)
(* Responses of the backend to the application's requests                  *)
(***************************************************************************)

\* getAdvice: a message, a suggested interest or level, or a suggestion whose
\* suggested value is missing.
Advices ==
    { [ advice_type |-> "none", suggested_interest |-> Undefined, suggested_level |-> Undefined ],
      [ advice_type |-> "interest_change", suggested_interest |-> "RAG", suggested_level |-> Undefined ],
      [ advice_type |-> "interest_change", suggested_interest |-> Undefined, suggested_level |-> Undefined ],
      [ advice_type |-> "level_change", suggested_interest |-> Undefined, suggested_level |-> "advanced" ] }

\* Paper lists, as the paper_id of each entry, in the server's order.
PaperLists == { << >>, << 2, 1 >>, << 1, 2, 3, 4 >> }

\* chat_history of a paper detail
ChatHistories ==
    { << >>,
      << [ question |-> "q1", answer |-> "a1" ], [ question |-> "q2", answer |-> "a2" ] >> }

\* The JSON object an ok response of each method carries.
PayloadsOf(kind) ==
    CASE kind \in { "login", "register" } ->
            { [ user_id |-> u.id, username |-> u.username, interest |-> u.interest,
                level |-> u.level ] : u \in User }
      [] kind = "getAdvice" -> { [ advice |-> a ] : a \in Advices }
      [] kind \in { "getTodayRecommendations", "getPapersHistory" } ->
            { [ papers |-> l ] : l \in PaperLists }
      [] kind = "getPaperDetail" ->
            { [ title |-> "Paper", chat_history |-> h ] : h \in ChatHistories }
      [] kind = "chatWithPaper" -> { [ answer |-> "a3" ] }
      [] OTHER -> { [ message |-> "done" ] }

AppDetails == { "detail-A" }

\* The HTTP responses the backend can give to a request of the kind.
AppResponses(kind) ==
    { [ ok |-> TRUE, body |-> JsonBody(Undefined, pl) ] : pl \in PayloadsOf(kind) }
    \cup { [ ok |-> FALSE, body |-> JsonBody(d, UndefinedObject) ] : d \in AppDetails }
    \cup { [ ok |-> FALSE, body |-> NotJsonBody ] }

\* How a call settles: by request() on the response. (A fetch() that itself
\* rejects is, for the continuations, one more rejection with a message that
\* is not the body's detail, like that of a body that is not JSON.)
Settlements(kind) == AppResponses(kind)
Outcome(method, response) == ApiCall(method, response)

Remove(reqs, i) == SubSeq(reqs, 1, i - 1) \o SubSeq(reqs, i + 1, Len(reqs))

(***************************************************************************)
(* AuthProvider (src/frontend/lib/auth-context.tsx)                        *)
(***************************************************************************)

\* A user built with two fields of the response confused (C6 must tell it
\* from UserOfResponse).
UserOfResponseSwapped(response) ==
    [ id |-> response.user_id, username |-> response.username,
      interest |-> response.level, level |-> response.interest ]

\* The User that login and signup build from the response.
UserOfResponse(response) ==
    [ id |-> response.user_id, username |-> response.username,
      interest |-> response.interest, level |-> response.level ]

\* An update that keeps the old value (C12 must tell it from WithInterest).
WithInterestKept(u, interest) == u

\* updatedUser of updateInterest, updateLevel and updateProfile, from the
\* user their closure holds.
WithInterest(u, interest)       == [ u EXCEPT !.interest = interest ]
WithLevel(u, level)             == [ u EXCEPT !.level = level ]
WithProfile(u, interest, level) ==
    [ id |-> u.id, username |-> u.username, interest |-> interest, level |-> level ]

\* A session update that forgets localStorage (C1 must tell it from SetSession).
SetSessionMemoryOnly(u) ==
    /\ user' = u
    /\ ls' = ls
    /\ persisted' = u

\* setUser(u); localStorage.setItem("user", JSON.stringify(u))
SetSession(u) ==
    /\ user' = u
    /\ ls' = JSONstringify(u)
    /\ persisted' = u

\* setUser(null); localStorage.removeItem("user")
logout ==
    /\ user' = NoUser
    /\ ls' = NoEntry
    /\ persisted' = NoUser

\* The commit that follows a handler or continuation which changed the
\* session user to u and left the page with loc, nav, reqs, lf: the page renders
\* with u and its effects run.
\* (obs: what the handler or continuation itself was observed to do)
Commit(u, loc, nav, reqs, lf, obs) ==
    LET e == RunEffects(u, page, loc, nav, reqs, lf) IN
    /\ local' = e.local
    /\ navTarget' = e.nav
    /\ inflight' = e.inflight
    /\ latestFetch' = e.latest
    /\ last' = [ obs EXCEPT !.issued = @ \o e.issued ]

(***************************************************************************)
(* Form fields (login, signup, profile, add-paper and chat inputs)         *)
(***************************************************************************)

\* String.prototype.trim on the texts the inputs can hold.
Trim(t) == CASE t = " " -> "" [] t = " RAG " -> "RAG" [] OTHER -> t

\* The texts a user types or selects, per page and field.
FieldValues(p) ==
    CASE p = "mypage" -> [ interestInput |-> { "", "NLP", "RAG" },
                           difficulty |-> { "beginner", "advanced" } ]
      [] p = "home"   -> [ arxivId |-> { " ", "2005.11401" } ]
      [] p = "chat"   -> [ input |-> { " ", "q3" } ]
      [] OTHER        -> [ none |-> { } ]

\* Whether the page renders the input and lets the user change it.
FieldEnabled(p, f) ==
    CASE p = "mypage" -> user # NoUser
      [] p = "home"   -> user # NoUser /\ ~local.isAddingPaper
      [] p = "chat"   -> /\ user # NoUser
                         /\ ~local.isFetchingPaper
                         /\ local.error = Null
                         /\ ~local.isLoading
      [] OTHER        -> FALSE

\* onChange / onValueChange of an input; on MyPage the second effect
\* recomputes hasChanges in the commit that follows.
SetField(f, v) ==
    /\ Quiet
    /\ FieldEnabled(page, f)
    /\ local[f] # v
    /\ local' = IF page = "mypage"
                   THEN LET typed == [ local EXCEPT ![f] = v ] IN
                        [ typed EXCEPT !.hasChanges =
                            HasChanges(typed.interestInput, typed.difficulty, user) ]
                   ELSE [ local EXCEPT ![f] = v ]
    /\ last' = NoObs
    /\ UNCHANGED <<user, ls, persisted, phase, page, navTarget, inflight, latestFetch>>

(***************************************************************************)
(* LoginPage (api.ts 435-515) and SignupPage (signup/page.tsx)             *)
(***************************************************************************)

\* The values of the controlled inputs when the form is submitted (only
\* handleSubmit reads them).
LoginForms  == [ username : { "", "alice" }, password : { "", "pw" } ]
SignupForm(username, password, confirmPassword, interest, difficulty) ==
    [ username |-> username, password |-> password, confirmPassword |-> confirmPassword,
      interest |-> interest, difficulty |-> difficulty ]
SignupForms ==
    { SignupForm("", "", "", "", ""),
      SignupForm("", "pw", "pv", " ", ""),
      SignupForm("bob", "pw", "", " RAG ", "beginner"),
      SignupForm("bob", "pw", "pv", " ", ""),
      SignupForm("bob", "pw", "pw", " ", ""),
      SignupForm("bob", "pw", "pw", "", "beginner"),
      SignupForm("bob", "pw", "pw", " RAG ", ""),
      SignupForm("bob", "pw", "pw", " RAG ", "beginner") }

\* A login that never reaches the API client (C5 must tell it from LoginSubmit).
LoginSubmitOffline(f) ==
    /\ Quiet
    /\ page = "login"
    /\ local' = [ local EXCEPT !.error = IF f.username = "" \/ f.password = ""
                                            THEN LoginEmptyError ELSE LoginFailedError ]
    /\ last' = IF f.username = "" \/ f.password = ""
                  THEN ObsSubmit("LoginPage.handleSubmit", << >>, f)
                  ELSE ObsSubmit("login", << >>, f)
    /\ UNCHANGED <<user, ls, persisted, phase, page, navTarget, inflight, latestFetch>>

\* A submit without the check for empty fields (C14 must tell it from
\* LoginSubmit).
LoginSubmitUnchecked(f) ==
    /\ Quiet
    /\ page = "login"
    /\ Room("login")
    /\ local' = [ local EXCEPT !.error = "" ]
    /\ inflight' = Add(inflight,
           Request("login", NoUser, [ NoArg EXCEPT !.text = f.username ], FALSE))
    /\ last' = ObsSubmit("login", << "login" >>, f)
    /\ UNCHANGED <<user, ls, persisted, phase, page, navTarget, latestFetch>>

\* LoginPage.handleSubmit up to its await, with AuthProvider.login up to its.
LoginSubmit(f) ==
    /\ Quiet
    /\ page = "login"
    /\ IF f.username = "" \/ f.password = ""
          THEN /\ local' = [ local EXCEPT !.error = LoginEmptyError ]
               /\ last' = ObsSubmit("LoginPage.handleSubmit", << >>, f)
               /\ UNCHANGED inflight
          ELSE /\ Room("login")
               /\ local' = [ local EXCEPT !.error = "" ]
               /\ inflight' = Add(inflight,
                      Request("login", NoUser, [ NoArg EXCEPT !.text = f.username ], FALSE))
               /\ last' = ObsSubmit("login", << "login" >>, f)
    /\ UNCHANGED <<user, ls, persisted, phase, page, navTarget, latestFetch>>

\* The checks with the last two in the other order (C15 must tell it from
\* SignupValidation).
SignupValidationReordered(f) ==
    IF f.username = "" \/ f.password = "" \/ f.confirmPassword = "" THEN SignupEmptyError
    ELSE IF f.password # f.confirmPassword THEN SignupMismatch
    ELSE IF f.difficulty = "" THEN SignupNoDifficulty
    ELSE IF Trim(f.interest) = "" THEN SignupNoInterest
    ELSE ""

\* The first failing check of SignupPage.handleSubmit, or "" when all pass.
SignupValidation(f) ==
    IF f.username = "" \/ f.password = "" \/ f.confirmPassword = "" THEN SignupEmptyError
    ELSE IF f.password # f.confirmPassword THEN SignupMismatch
    ELSE IF Trim(f.interest) = "" THEN SignupNoInterest
    ELSE IF f.difficulty = "" THEN SignupNoDifficulty
    ELSE ""

\* SignupPage.handleSubmit up to its await, with AuthProvider.signup up to its.
SignupSubmit(f) ==
    /\ Quiet
    /\ page = "signup"
    /\ IF SignupValidation(f) # ""
          THEN /\ local' = [ local EXCEPT !.error = SignupValidation(f) ]
               /\ last' = ObsSubmit("SignupPage.handleSubmit", << >>, f)
               /\ UNCHANGED inflight
          ELSE /\ Room("register")
               /\ local' = [ local EXCEPT !.error = "" ]
               /\ inflight' = Add(inflight,
                      Request("register", NoUser,
                              [ NoArg EXCEPT !.text = f.username,
                                             !.interest = Trim(f.interest),
                                             !.level = f.difficulty ], FALSE))
               /\ last' = ObsSubmit("signup", << "register" >>, f)
    /\ UNCHANGED <<user, ls, persisted, phase, page, navTarget, latestFetch>>

\* The rest of login / signup after api.login / api.register settled, and of
\* the handleSubmit awaiting it: the session is set and "/" pushed, or the
\* error is alerted and shown.
SettleAuth(i, response) ==
    LET req == inflight[i]
        out == Outcome(req.kind, response)
        op  == IF req.kind = "login" THEN "login" ELSE "signup"
        \* the username submitted, and whether the form that awaits is still mounted
        form == [ username |-> req.arg.text, live |-> req.live ]
    IN  /\ req.kind \in { "login", "register" }
        /\ IF out.state = "resolved"
              THEN /\ SetSession(UserOfResponse(out.value.payload))
                   /\ Commit(UserOfResponse(out.value.payload), local, "home",
                             Remove(inflight, i), latestFetch,
                             [ ObsSettled(op, "true", << >>, << >>, out)
                               EXCEPT !.form = form ])
              ELSE /\ inflight' = Remove(inflight, i)
                   /\ last' = [ ObsSettled(op, "false", << >>, << out.message >>, out)
                                 EXCEPT !.form = form ]
                   /\ local' = IF req.live
                                  THEN [ local EXCEPT !.error =
                                           IF req.kind = "login" THEN LoginFailedError
                                                                 ELSE SignupFailedError ]
                                  ELSE local
                   /\ UNCHANGED <<user, ls, persisted, navTarget, latestFetch>>
        /\ UNCHANGED <<phase, page>>

\* The links between the two forms.
AuthPush ==
    \/ page = "login" /\ Push("signup")
    \/ page = "signup" /\ Push("login")

(***************************************************************************)
(* HomePage (src/unnamed/part_000)                                         *)
(***************************************************************************)

\* The three advice panels of the render.
LoadingPanel(loc) == loc.isLoading
ErrorPanel(loc)   == loc.error # Null
AdvicePanel(loc)  == ~loc.isLoading /\ loc.error = Null /\ loc.advice # NullObject

InterestChanged  == "interest changed"
InterestFailed   == "interest change failed"
LevelChanged     == "level changed"
LevelFailed      == "level change failed"
CalendarAdded    == "added to the calendar"
CalendarFailed   == "calendar failed"
ArxivIdMissing   == "enter an arXiv id"
AddPaperFailed   == "adding the paper failed"

\* handleChangeInterest / handleChangeLevel up to their await.
HandleChange(kind) ==
    LET field == IF kind = "acceptInterestChange" THEN "suggested_interest"
                                                  ELSE "suggested_level"
        type  == IF kind = "acceptInterestChange" THEN "interest_change" ELSE "level_change"
    IN  /\ Quiet
        /\ page = "home"
        /\ user # NoUser
        /\ AdvicePanel(local)
        /\ local.advice.advice_type = type          \* the button is rendered
        /\ IF ~Truthy(local.advice[field])
              THEN /\ last' = Obs("HomePage.handleChange", "none", << >>, << >>)
                   /\ UNCHANGED inflight
              ELSE /\ Room(kind)
                   /\ inflight' = Add(inflight,
                          Request(kind, Closure(kind, user),
                                  [ NoArg EXCEPT !.text = local.advice[field],
                                                 !.user_id = user.id ], FALSE))
                   /\ last' = Obs("HomePage.handleChange", "none", << kind >>, << >>)
        /\ UNCHANGED <<user, ls, persisted, phase, page, local, navTarget, latestFetch>>

\* The rest of handleChangeInterest / handleChangeLevel: updateInterest or
\* updateLevel (with the user of the render the click happened in), the
\* alert, and fetchAdvice() of that same render.
SettleChange(i, response) ==
    LET req == inflight[i]
        out == Outcome(req.kind, response)
        interest == req.kind = "acceptInterestChange"
        rest == Remove(inflight, i)
        updated == IF interest THEN WithInterest(req.cap, req.arg.text)
                               ELSE WithLevel(req.cap, req.arg.text)
        obs == [ ObsSettled(IF interest THEN "updateInterest" ELSE "updateLevel",
                            "none", << "getAdvice" >>,
                            << IF interest THEN InterestChanged ELSE LevelChanged >>, out)
                   EXCEPT !.form = req.arg ]
    IN  /\ req.kind \in { "acceptInterestChange", "acceptLevelChange" }
        /\ IF out.state = "resolved"
              THEN /\ SetSession(updated)
                   /\ IF req.live
                         THEN Commit(updated, StartFetch("home", local), navTarget,
                                     Add(NotLatest(rest),
                                         Request("getAdvice", NoUser,
                                                 [ NoArg EXCEPT !.user_id = req.cap.id ],
                                                 TRUE)),
                                     "pending", obs)
                         \* (the page is gone: its fetchAdvice() still calls the API,
                         \* but the answer only reaches an unmounted component)
                         ELSE Commit(updated, local, navTarget, rest, latestFetch, obs)
              ELSE /\ inflight' = rest
                   /\ last' = [ ObsSettled("HomePage.handleChange", "none", << >>,
                                           << IF interest THEN InterestFailed ELSE LevelFailed >>,
                                           out)
                                 EXCEPT !.form = req.arg ]
                   /\ UNCHANGED <<user, ls, persisted, local, navTarget, latestFetch>>
        /\ UNCHANGED <<phase, page>>

\* handleAddToCalendar up to its await (the button is disabled while adding).
HandleAddToCalendar ==
    /\ Quiet
    /\ page = "home"
    /\ user # NoUser
    /\ ~local.isAddingToCalendar
    /\ Room("addToCalendar")
    /\ local' = [ local EXCEPT !.isAddingToCalendar = TRUE ]
    /\ inflight' = Add(inflight, Request("addToCalendar", NoUser, NoArg, FALSE))
    /\ last' = Obs("HomePage.handleAddToCalendar", "none", << "addToCalendar" >>, << >>)
    /\ UNCHANGED <<user, ls, persisted, phase, page, navTarget, latestFetch>>

\* The user_id addPaperByArxivId puts in the request body (api.ts line 256).
AddPaperUserId == 3

\* handleAddPaper up to its await: by the button, or by Enter in the input
\* (both disabled while isAddingPaper). (The render shows neither without a
\* user; the handler checks the user itself, and is called here then too.)
HandleAddPaper ==
    /\ phase = "running"
    /\ page = "home"
    /\ IF user = NoUser
          THEN /\ last' = Obs("HomePage.handleAddPaper", "none", << >>, << >>)
               /\ UNCHANGED <<local, inflight>>
          ELSE /\ Quiet
               /\ ~local.isAddingPaper
               /\ IF Trim(local.arxivId) = ""
                     THEN /\ last' = Obs("HomePage.handleAddPaper", "none", << >>,
                                         << ArxivIdMissing >>)
                          /\ UNCHANGED <<local, inflight>>
                     ELSE /\ Room("addPaperByArxivId")
                          /\ local' = [ local EXCEPT !.isAddingPaper = TRUE ]
                          /\ inflight' = Add(inflight,
                                 Request("addPaperByArxivId", NoUser,
                                         [ NoArg EXCEPT !.text = local.arxivId,
                                                        !.user_id = AddPaperUserId ], FALSE))
                          /\ last' = Obs("HomePage.handleAddPaper", "none",
                                         << "addPaperByArxivId" >>, << >>)
    /\ UNCHANGED <<user, ls, persisted, phase, page, navTarget, latestFetch>>

\* An end of handleAddPaper that clears the input whatever the outcome (C19
\* must tell it from AddPaperSettled).
AddPaperSettledClearing(loc, ok) ==
    [ loc EXCEPT !.isAddingPaper = FALSE, !.arxivId = "" ]

\* handleAddPaper after its await: setArxivId("") in the try branch only, and
\* setIsAddingPaper(false) in the finally.
AddPaperSettled(loc, ok) ==
    [ loc EXCEPT !.isAddingPaper = FALSE, !.arxivId = IF ok THEN "" ELSE @ ]

\* The rest of handleAddToCalendar and handleAddPaper.
SettleHomeAction(i, response) ==
    LET req == inflight[i]
        out == Outcome(req.kind, response)
        ok  == out.state = "resolved"
    IN  /\ req.kind \in { "addToCalendar", "addPaperByArxivId" }
        /\ inflight' = Remove(inflight, i)
        /\ IF req.kind = "addToCalendar"
              THEN /\ local' = [ local EXCEPT !.isAddingToCalendar = FALSE ]
                   /\ last' = ObsSettled("HomePage.handleAddToCalendar", "none", << >>,
                                 << IF ok THEN CalendarAdded ELSE CalendarFailed >>, NullObject)
              ELSE /\ local' = AddPaperSettled(local, ok)
                   /\ last' = ObsSettled("HomePage.handleAddPaper", "none", << >>,
                                 << IF ok THEN out.value.payload.message ELSE AddPaperFailed >>,
                                 out)
        /\ UNCHANGED <<user, ls, persisted, phase, page, navTarget, latestFetch>>

\* The two navigation cards.
HomePush ==
    /\ page = "home"
    /\ user # NoUser
    /\ \E t \in { "recommendations", "history" } : Push(t)

(***************************************************************************)
(* The fetches of the protected pages                                      *)
(***************************************************************************)

RecommendationsShown == 3      \* data.papers.slice(0, 3)

\* Array.prototype.slice(0, n)
Slice(list, n) == SubSeq(list, 1, IF Len(list) < n THEN Len(list) ELSE n)

Greeting == "greeting"
SendFailedAnswer == "sorry, sending failed"

\* The messages with each answer before its question (C18 must tell it from
\* ChatMessages).
RECURSIVE ChatMessagesAnswerFirst(_)
ChatMessagesAnswerFirst(history) ==
    IF history = << >> THEN << >>
    ELSE << [ role |-> "assistant", content |-> Head(history).answer ],
            [ role |-> "user", content |-> Head(history).question ] >>
         \o ChatMessagesAnswerFirst(Tail(history))

\* ChatPage.fetchPaperInfo: the messages built from chat_history.
RECURSIVE ChatMessages(_)
ChatMessages(history) ==
    IF history = << >> THEN << >>
    ELSE << [ role |-> "user", content |-> Head(history).question ],
            [ role |-> "assistant", content |-> Head(history).answer ] >>
         \o ChatMessages(Tail(history))

InitialMessages(history) ==
    IF Len(ChatMessages(history)) = 0
        THEN << [ role |-> "assistant", content |-> Greeting ] >>
        ELSE ChatMessages(history)

FetchErrorOf(p) ==
    CASE p = "home" -> AdviceFetchError
      [] p = "recommendations" -> RecsFetchError
      [] p = "history" -> HistoryFetchError
      [] OTHER -> PaperFetchError

\* The try branch of the page's fetch function.
FetchSucceeded(p, loc, payload) ==
    CASE p = "home"            -> [ loc EXCEPT !.advice = payload.advice ]
      [] p = "recommendations" -> [ loc EXCEPT !.papers = Slice(payload.papers, RecommendationsShown) ]
      [] p = "history"         -> [ loc EXCEPT !.papers = payload.papers ]
      [] p = "paper"           -> [ loc EXCEPT !.paper = payload ]
      [] p = "chat"            -> [ loc EXCEPT !.paperTitle = payload.title,
                                               !.messages = InitialMessages(payload.chat_history) ]

\* The catch branch.
FetchFailedIn(p, loc) == [ loc EXCEPT !.error = FetchErrorOf(p) ]

\* A finally branch that leaves the busy flag up (C9 must tell it from
\* FetchFinally).
FetchFinallyBusy(p, loc) == loc

\* The finally branch.
FetchFinally(p, loc) ==
    IF p = "chat" THEN [ loc EXCEPT !.isFetchingPaper = FALSE ]
                  ELSE [ loc EXCEPT !.isLoading = FALSE ]

\* The rest of fetchAdvice, fetchRecommendations, fetchHistory,
\* fetchPaperDetail, fetchPaperInfo after the awaited call settled.
SettleFetch(i, response) ==
    LET req == inflight[i]
        out == Outcome(req.kind, response)
        ok  == out.state = "resolved"
        op  == CASE page = "home"            -> "fetchAdvice"
                 [] page = "recommendations" -> "fetchRecommendations"
                 [] page = "history"         -> "fetchHistory"
                 [] page = "paper"           -> "fetchPaperDetail"
                 [] OTHER                    -> "fetchPaperInfo"
    IN  /\ page \in FetchingPages
        /\ req.kind = FetchKind(page)
        /\ inflight' = Remove(inflight, i)
        /\ local' = FetchFinally(page,
                        IF ok THEN FetchSucceeded(page, local, out.value.payload)
                              ELSE FetchFailedIn(page, local))
        /\ latestFetch' = IF req.latest THEN (IF ok THEN "succeeded" ELSE "failed")
                                        ELSE latestFetch
        /\ last' = ObsSettled(op, "none", << >>, << >>, out)
        /\ UNCHANGED <<user, ls, persisted, phase, page, navTarget>>

(***************************************************************************)
(* RecommendationsPage, HistoryPage, PaperDetailPage                       *)
(***************************************************************************)

RequestPaperId     == 50       \* recommendations/page.tsx line 57
RequestPaperDone   == "added to tomorrow's list"
RequestPaperFailed == "request failed"

\* The panels of RecommendationsPage and HistoryPage.
EmptyPanel(loc) == ~loc.isLoading /\ loc.error = Null /\ Len(loc.papers) = 0
ListPanel(loc)  == ~loc.isLoading /\ loc.error = Null /\ Len(loc.papers) > 0

\* The panels HistoryPage's render shows below its heading.
HistoryPanels(loc) ==
    { q \in { "loading", "error", "empty", "list" } :
        \/ q = "loading" /\ loc.isLoading
        \/ q = "error"   /\ loc.error # Null
        \/ q = "empty"   /\ EmptyPanel(loc)
        \/ q = "list"    /\ ListPanel(loc) }

\* const todayPapers = papers.slice(0, 3)
todayPapers(loc) == Slice(loc.papers, RecommendationsShown)

\* The cards RecommendationsPage renders: todayPapers.map(...) under
\* `!isLoading && !error`.
DisplayedPapers(loc) ==
    IF ~loc.isLoading /\ loc.error = Null THEN todayPapers(loc) ELSE << >>

\* handleRequestPaper up to its await.
HandleRequestPaper ==
    /\ Quiet
    /\ page = "recommendations"
    /\ user # NoUser
    /\ ~local.isLoading /\ local.error = Null
    /\ Room("requestPaper")
    /\ inflight' = Add(inflight,
           Request("requestPaper", NoUser,
                   [ NoArg EXCEPT !.text = "common_reference", !.user_id = user.id ], FALSE))
    /\ last' = Obs("RecommendationsPage.handleRequestPaper", "none", << "requestPaper" >>, << >>)
    /\ UNCHANGED <<user, ls, persisted, phase, page, local, navTarget, latestFetch>>

SettleRequestPaper(i, response) ==
    LET req == inflight[i]
        out == Outcome(req.kind, response)
    IN  /\ req.kind = "requestPaper"
        /\ inflight' = Remove(inflight, i)
        /\ last' = ObsSettled("RecommendationsPage.handleRequestPaper", "none", << >>,
                      << IF out.state = "resolved" THEN RequestPaperDone
                                                   ELSE RequestPaperFailed >>, NullObject)
        /\ UNCHANGED <<user, ls, persisted, phase, page, local, navTarget, latestFetch>>

\* Back to home, or into a listed paper.
ListPush ==
    /\ page \in { "recommendations", "history" }
    /\ user # NoUser
    /\ \/ Push("home")
       \/ /\ ~local.isLoading /\ local.error = Null
          /\ Len(IF page = "recommendations" THEN todayPapers(local) ELSE local.papers) > 0
          /\ Push("paper")

\* PaperDetailPage: back (router.back from the error screen returns to a page
\* that links here), home, or the chat.
PaperPush ==
    /\ page = "paper"
    /\ user # NoUser
    /\ ~local.isLoading
    /\ IF local.error # Null \/ local.paper = NullObject
          THEN \E t \in { "recommendations", "history" } : Push(t)
          ELSE \E t \in { "home", "chat" } : Push(t)

(***************************************************************************)
(* ChatPage (api.ts 538-747)                                               *)
(***************************************************************************)

MaxMessages == 4      \* no further question is sent once the list is this long

\* The chat is rendered (not the loading or the error screen).
ChatShown(loc) == ~loc.isFetchingPaper /\ loc.error = Null

\* handleSend up to its await: by the button, or by Enter in the input. (The
\* render disables both while isLoading; the handler checks isLoading itself,
\* and is called here in that state too.)
HandleSend ==
    /\ Quiet
    /\ page = "chat"
    /\ user # NoUser
    /\ ChatShown(local)
    /\ IF Trim(local.input) = "" \/ local.isLoading
          THEN /\ last' = Obs("ChatPage.handleSend", "none", << >>, << >>)
               /\ UNCHANGED <<local, inflight>>
          ELSE /\ Room("chatWithPaper")
               /\ Len(local.messages) + 2 <= MaxMessages
               /\ local' = [ local EXCEPT
                               !.messages = Append(@, [ role |-> "user", content |-> local.input ]),
                               !.input = "",
                               !.isLoading = TRUE ]
               /\ inflight' = Add(inflight,
                      Request("chatWithPaper", NoUser,
                              [ NoArg EXCEPT !.text = local.input, !.user_id = user.id ], FALSE))
               /\ last' = Obs("ChatPage.handleSend", "none", << "chatWithPaper" >>, << >>)
    /\ UNCHANGED <<user, ls, persisted, phase, page, navTarget, latestFetch>>

\* The rest of handleSend.
SettleSend(i, response) ==
    LET req == inflight[i]
        out == Outcome(req.kind, response)
        answer == IF out.state = "resolved" THEN out.value.payload.answer
                                            ELSE SendFailedAnswer
    IN  /\ req.kind = "chatWithPaper"
        /\ inflight' = Remove(inflight, i)
        /\ IF req.live
              THEN /\ local' = [ local EXCEPT
                                   !.messages = Append(@, [ role |-> "assistant",
                                                            content |-> answer ]),
                                   !.isLoading = FALSE ]
                   /\ last' = ObsSettled("ChatPage.handleSend", "none", << >>, << >>, out)
              \* (the page that asked is gone: its setters do nothing)
              ELSE /\ local' = local
                   /\ last' = NoObs
        /\ UNCHANGED <<user, ls, persisted, phase, page, navTarget, latestFetch>>

\* Back to the paper (router.back from the error screen, the button otherwise).
ChatPush ==
    /\ page = "chat"
    /\ user # NoUser
    /\ ~local.isFetchingPaper
    /\ Push("paper")

(***************************************************************************)
(* MyPage (api.ts 1030-1192)                                               *)
(***************************************************************************)

InterestMissing == "enter an interest"
ProfileSaved    == "the profile was updated"

\* An updateProfile that calls the server without a session user (C13 must
\* tell it from updateProfile).
updateProfileUnguarded(interest, level, live) ==
    /\ inflight' = Add(inflight,
           [ Request("updateProfile",
                     IF user = NoUser THEN NoUser ELSE Closure("updateProfile", user),
                     [ NoArg EXCEPT !.interest = interest, !.level = level ], FALSE)
             EXCEPT !.live = live ])
    /\ last' = Obs("updateProfile", "none", << "updateProfile" >>, << >>)

\* AuthProvider.updateProfile up to its await: `if (!user) return false`,
\* then api.updateProfile(user.id, { interest, level }).
\* (live: whether a mounted page awaits the result)
updateProfile(interest, level, live) ==
    IF user = NoUser
        THEN /\ last' = Obs("updateProfile", "false", << >>, << >>)
             /\ UNCHANGED inflight
        ELSE /\ inflight' = Add(inflight,
                    [ Request("updateProfile", Closure("updateProfile", user),
                              [ NoArg EXCEPT !.interest = interest, !.level = level,
                                             !.user_id = user.id ], FALSE)
                      EXCEPT !.live = live ])
             /\ last' = Obs("updateProfile", "none", << "updateProfile" >>, << >>)

\* handleSave up to its await, with AuthProvider.updateProfile up to its.
HandleSave ==
    /\ Quiet
    /\ page = "mypage"
    /\ user # NoUser
    /\ local.hasChanges                          \* the button is rendered
    /\ IF local.interestInput = ""
          THEN /\ last' = Obs("MyPage.handleSave", "none", << >>, << InterestMissing >>)
               /\ UNCHANGED inflight
          ELSE /\ Room("updateProfile")
               /\ updateProfile(local.interestInput, local.difficulty, TRUE)
    /\ UNCHANGED <<user, ls, persisted, phase, page, local, navTarget, latestFetch>>

\* The rest of AuthProvider.updateProfile, and of the handleSave awaiting it.
SettleProfile(i, response) ==
    LET req == inflight[i]
        out == Outcome(req.kind, response)
        updated == WithProfile(req.cap, req.arg.interest, req.arg.level)
        saved == IF req.live THEN [ local EXCEPT !.hasChanges = FALSE ] ELSE local
    IN  /\ req.kind = "updateProfile"
        /\ IF out.state = "resolved"
              THEN /\ SetSession(updated)
                   /\ Commit(updated, saved, navTarget, Remove(inflight, i), latestFetch,
                             [ ObsSettled("updateProfile", "true", << >>, << ProfileSaved >>, out)
                               EXCEPT !.form = req.arg ])
              ELSE /\ inflight' = Remove(inflight, i)
                   /\ local' = saved
                   /\ last' = [ ObsSettled("updateProfile", "false", << >>,
                                           << out.message, ProfileSaved >>, out)
                                 EXCEPT !.form = req.arg ]
                   /\ UNCHANGED <<user, ls, persisted, navTarget, latestFetch>>
        /\ UNCHANGED <<phase, page>>

\* handleLogout: logout(); router.push('/login')
HandleLogout ==
    /\ Quiet
    /\ page = "mypage"
    /\ user # NoUser
    /\ logout
    /\ Commit(NoUser, local, "login", inflight, latestFetch,
              Obs("logout", "none", << >>, << >>))
    /\ UNCHANGED <<phase, page>>

MyPush ==
    /\ page = "mypage"
    /\ user # NoUser
    /\ Push("home")

(***************************************************************************)
(* The application                                                         *)
(***************************************************************************)

\* A response reaches the request in flight at position i: the continuation
\* of the handler that awaits it runs.
Settle(i, response) ==
    /\ Quiet
    /\ \/ SettleAuth(i, response)
       \/ SettleChange(i, response)
       \/ SettleHomeAction(i, response)
       \/ SettleFetch(i, response)
       \/ SettleRequestPaper(i, response)
       \/ SettleSend(i, response)
       \/ SettleProfile(i, response)

\* The application leaves the variables of the other two models alone.
Outside == UNCHANGED <<apiVars, graphVars>>

\* The requests in flight of the kinds.
Awaiting(kinds) == { i \in 1..Len(inflight) : inflight[i].kind \in kinds }

AppNext ==
    \/ MountEffects /\ Outside
    \/ RestoredEffects /\ Outside
    \/ Navigate /\ Outside
    \/ Reload /\ Outside
    \/ HeaderPush /\ Outside
    \/ AuthPush /\ Outside
    \/ HomePush /\ Outside
    \/ ListPush /\ Outside
    \/ PaperPush /\ Outside
    \/ ChatPush /\ Outside
    \/ MyPush /\ Outside
    \/ \E f \in DOMAIN FieldValues(page) : \E v \in FieldValues(page)[f] :
          SetField(f, v) /\ Outside
    \/ \E f \in LoginForms : LoginSubmit(f) /\ Outside
    \/ \E f \in SignupForms : SignupSubmit(f) /\ Outside
    \/ \E k \in { "acceptInterestChange", "acceptLevelChange" } : HandleChange(k) /\ Outside
    \/ HandleAddToCalendar /\ Outside
    \/ HandleAddPaper /\ Outside
    \/ HandleRequestPaper /\ Outside
    \/ HandleSend /\ Outside
    \/ HandleSave /\ Outside
    \/ HandleLogout /\ Outside
    \/ \E i \in Awaiting({ "login", "register" }) :
          \E r \in Settlements(inflight[i].kind) : Quiet /\ SettleAuth(i, r) /\ Outside
    \/ \E i \in Awaiting({ "acceptInterestChange", "acceptLevelChange" }) :
          \E r \in Settlements(inflight[i].kind) : Quiet /\ SettleChange(i, r) /\ Outside
    \/ \E i \in Awaiting({ "addToCalendar", "addPaperByArxivId" }) :
          \E r \in Settlements(inflight[i].kind) : Quiet /\ SettleHomeAction(i, r) /\ Outside
    \/ \E i \in Awaiting({ "getAdvice", "getTodayRecommendations", "getPapersHistory",
                          "getPaperDetail" }) :
          \E r \in Settlements(inflight[i].kind) : Quiet /\ SettleFetch(i, r) /\ Outside
    \/ \E i \in Awaiting({ "requestPaper" }) :
          \E r \in Settlements(inflight[i].kind) : Quiet /\ SettleRequestPaper(i, r) /\ Outside
    \/ \E i \in Awaiting({ "chatWithPaper" }) :
          \E r \in Settlements(inflight[i].kind) : Quiet /\ SettleSend(i, r) /\ Outside
    \/ \E i \in Awaiting({ "updateProfile" }) :
          \E r \in Settlements(inflight[i].kind) : Quiet /\ SettleProfile(i, r) /\ Outside

(***************************************************************************)
(* Specifications                                                          *)
(***************************************************************************)

InitApi == ApiInit /\ GraphIdle /\ AppInit
NextApi ==
    \E m \in ApiMethods, r \in Responses : ApiInvoke(m, r) /\ UNCHANGED <<graphVars, appVars>>
SpecApi == InitApi /\ [][NextApi]_vars

InitGraph == GraphInit /\ ApiInit /\ AppInit
NextGraph == PaperGraph /\ UNCHANGED <<apiVars, appVars>>
SpecGraph == InitGraph /\ [][NextGraph]_vars

Init == AppInit /\ ApiInit /\ GraphIdle
Next == AppNext
Spec == Init /\ [][Next]_vars

\* A logged-in user at work: the session of a login is in place and the home
\* page has just been mounted by the navigation that follows the login.  The
\* user browses the protected pages and uses their controls; the effects of
\* every commit run and every request in flight is answered.
BrowseUser == [ id |-> 1, username |-> UsernameOf(1), interest |-> "NLP", level |-> "beginner" ]
InitBrowse ==
    LET e == RunEffects(BrowseUser, "home", InitLocal("home"), "none", << >>, "none") IN
    /\ user = BrowseUser
    /\ ls = JSONstringify(BrowseUser)
    /\ persisted = BrowseUser
    /\ phase = "running"
    /\ page = "home"
    /\ local = e.local
    /\ navTarget = e.nav
    /\ inflight = e.inflight
    /\ latestFetch = e.latest
    /\ last = Obs("effect", "none", e.issued, << >>)
    /\ ApiInit
    /\ GraphIdle

Answered(kind) ==
    \E i \in 1..Len(inflight) : \E r \in Settlements(kind) :
        inflight[i].kind = kind /\ Settle(i, r) /\ Outside
\* The requests whose handler holds a busy flag up, and the others made here.
BusyKinds   == { "getAdvice", "getTodayRecommendations", "getPapersHistory", "getPaperDetail",
                 "chatWithPaper", "addToCalendar", "addPaperByArxivId" }
BrowseKinds == BusyKinds \cup { "requestPaper", "acceptInterestChange", "acceptLevelChange" }

NextBrowse ==
    \/ HomePush /\ Outside
    \/ ListPush /\ Outside
    \/ PaperPush /\ Outside
    \/ ChatPush /\ Outside
    \/ \E f \in DOMAIN FieldValues(page) : \E v \in FieldValues(page)[f] :
          SetField(f, v) /\ Outside
    \/ \E k \in { "acceptInterestChange", "acceptLevelChange" } : HandleChange(k) /\ Outside
    \/ HandleAddToCalendar /\ Outside
    \/ HandleAddPaper /\ Outside
    \/ HandleRequestPaper /\ Outside
    \/ HandleSend /\ Outside
    \/ \E k \in BrowseKinds : Answered(k)

Fairness ==
    \A k \in BusyKinds : WF_vars(Answered(k))
FairSpec == InitBrowse /\ [][NextBrowse]_vars /\ Fairness

\* The session store used directly, in any session state: a consumer of
\* useAuth() on a public page calls updateProfile and logout, and an advice
\* accepted on a home page is applied. (The pages call updateProfile only from
\* MyPage, which renders with a user.)
InitStore ==
    /\ \E u \in User \cup { NoUser } :
          /\ user = u
          /\ persisted = u
          /\ ls = IF u = NoUser THEN NoEntry ELSE JSONstringify(u)
    /\ phase = "running"
    /\ page = "login"
    /\ local = InitLocal("login")
    /\ navTarget = "none"
    /\ inflight = << >>
    /\ latestFetch = "none"
    /\ last = NoObs
    /\ ApiInit
    /\ GraphIdle

StoreUpdateProfile ==
    /\ Len(inflight) < MaxInFlight
    /\ \E t \in Interests, l \in Levels : updateProfile(t, l, FALSE)
    /\ UNCHANGED <<user, ls, persisted, phase, page, local, navTarget, latestFetch>>

StoreLogout ==
    /\ user # NoUser
    /\ logout
    /\ last' = Obs("logout", "none", << >>, << >>)
    /\ UNCHANGED <<phase, page, local, navTarget, inflight, latestFetch>>

\* A home page accepts an advice: api.acceptInterestChange or
\* acceptLevelChange is awaited, and updateInterest or updateLevel of the
\* render that was clicked follows (the page is left out here: HandleChange
\* is the handler on its page).
StoreAcceptAdvice ==
    /\ user # NoUser
    /\ Len(inflight) < MaxInFlight
    /\ \E kind \in { "acceptInterestChange", "acceptLevelChange" } :
          \E v \in (IF kind = "acceptInterestChange" THEN Interests ELSE Levels) :
             /\ inflight' = Add(inflight,
                    [ Request(kind, Closure(kind, user),
                              [ NoArg EXCEPT !.text = v, !.user_id = user.id ], FALSE)
                      EXCEPT !.live = FALSE ])
             /\ last' = Obs("HomePage.handleChange", "none", << kind >>, << >>)
    /\ UNCHANGED <<user, ls, persisted, phase, page, local, navTarget, latestFetch>>

NextStore ==
    \/ StoreUpdateProfile /\ Outside
    \/ StoreAcceptAdvice /\ Outside
    \/ StoreLogout /\ Outside
    \/ \E i \in Awaiting({ "updateProfile" }) :
          \E r \in Settlements(inflight[i].kind) : SettleProfile(i, r) /\ Outside
    \/ \E i \in Awaiting({ "acceptInterestChange", "acceptLevelChange" }) :
          \E r \in Settlements(inflight[i].kind) : SettleChange(i, r) /\ Outside
SpecStore == InitStore /\ [][NextStore]_vars

(***************************************************************************)
(* Session store properties                                                *)
(***************************************************************************)

\* C1: once the mount-time restore has run, localStorage has no "user" entry
\* exactly when the session user is null, and otherwise its entry is the JSON
\* of exactly the session user.
C1_SessionPersisted ==
    phase # "mounting" =>
        /\ (ls = NoEntry <=> user = NoUser)
        /\ (user # NoUser => ls = JSONstringify(user))

\* A profile update has been applied and persisted.
C1_Witness ==
    /\ last.op = "updateProfile" /\ last.ret = "true"
    /\ user # NoUser
    /\ ls = JSONstringify(user)

\* C2: the restore at mount gives the user that was last persisted by a login,
\* signup or update not followed by a logout, and null when localStorage has
\* no "user" entry.
C2_RestoreRoundTrip ==
    last.op = "mount" =>
        /\ user = persisted
        /\ (ls = NoEntry => user = NoUser)

\* A reload restored a session.
C2_Witness == last.op = "mount" /\ user # NoUser /\ user = persisted

(***************************************************************************)
(* API client properties (SpecApi)                                         *)
(***************************************************************************)

\* C3: every method called with a response that is not ok rejects with the
\* body's detail when that is non-empty and with the default message
\* otherwise; called with an ok response it resolves with the parsed body.
C3_UniformErrors ==
    apiMethod # "none" =>
        IF ~apiResponse.ok
            THEN /\ apiOutcome.state = "rejected"
                 /\ apiOutcome.message = IF Truthy(apiResponse.body.detail)
                                            THEN apiResponse.body.detail
                                            ELSE DefaultErrorMessage
            ELSE /\ apiOutcome.state = "resolved"
                 /\ apiOutcome.value.detail = apiResponse.body.detail
                 /\ apiOutcome.value.payload = apiResponse.body.payload

\* C3 for the responses whose body is JSON, where it does hold.
C3_JsonBodies ==
    (apiMethod # "none" /\ apiResponse.body.json) => C3_UniformErrors

\* An error response with a JSON body without a detail: the default message.
C3_Witness ==
    /\ apiMethod = "login"
    /\ ~apiResponse.ok /\ apiResponse.body.json /\ apiResponse.body.detail = Undefined
    /\ apiOutcome.state = "rejected" /\ apiOutcome.message = DefaultErrorMessage

\* C11: an invoked method hands fetch() exactly one request, and no other
\* method has the verb and path template of the invoked one.
C11_OneMethodPerEndpoint ==
    apiMethod # "none" =>
        /\ Len(apiSent) = 1
        /\ apiSent[1].verb = Verb(apiMethod)
        /\ Len(apiSent[1].path) = Len(Template(apiMethod))
        /\ \A m \in ApiMethods \ { apiMethod } :
              << Verb(m), Template(m) >> # << Verb(apiMethod), Template(apiMethod) >>

\* accept-level invoked for user 2: one POST to /2/advice/accept-level.
C11_Witness ==
    /\ apiMethod = "acceptLevelChange"
    /\ apiSent = << [ verb |-> "POST", path |-> << "2", "advice", "accept-level" >> ] >>

(***************************************************************************)
(* Page properties                                                         *)
(***************************************************************************)

\* C4: a protected page whose session user is null renders nothing, has
\* pushed /login once its effect has run, and issues no API call.
C4_NoUserNoPage ==
    [][ /\ (page \in ProtectedPages /\ user = NoUser) =>
              /\ last'.issued = << >>
              /\ Len(inflight') <= Len(inflight)
        /\ (page' \in ProtectedPages /\ user' = NoUser /\ phase' = "running") =>
              /\ ~Renders(page', user')
              /\ navTarget' = "login" ]_vars

\* The profile page after a logout.
C4_Witness ==
    /\ page = "mypage" /\ user = NoUser
    /\ phase = "running"
    /\ navTarget = "login"
    /\ last.op = "logout"

\* The session operations of C5, and their step up to the awaited call.
C5_Invoked(op) == last.op = op /\ last.ret = "none"

\* C5 as stated: login, signup, logout and updateProfile each issue an API
\* call when invoked.
C5_EveryOperationCalls ==
    \A op \in { "login", "signup", "logout", "updateProfile" } :
        C5_Invoked(op) => last.issued # << >>

\* C5 as the code has it: login, signup and updateProfile issue their call,
\* which is then in flight; logout issues none.
C5_AllButLogoutCall ==
    /\ C5_Invoked("login") =>
          last.issued = << "login" >> /\ \E i \in 1..Len(inflight) : inflight[i].kind = "login"
    /\ C5_Invoked("signup") =>
          last.issued = << "register" >> /\ \E i \in 1..Len(inflight) : inflight[i].kind = "register"
    /\ C5_Invoked("updateProfile") =>
          /\ last.issued = << "updateProfile" >>
          /\ \E i \in 1..Len(inflight) : inflight[i].kind = "updateProfile"
    /\ C5_Invoked("logout") => last.issued = << >>

\* A logout, which clears the session without a call.
C5_Witness ==
    /\ C5_Invoked("logout")
    /\ user = NoUser /\ ls = NoEntry
    /\ inflight = << >>

\* C6: when the call of login or signup resolves, the operation returns true
\* and the session user is the response's user_id, username, interest and
\* level; when it rejects, the operation returns false and the session user
\* and the localStorage entry stay as they were.
C6_AuthOutcome ==
    [][ (last'.op \in { "login", "signup" } /\ last'.ret # "none") =>
            IF last'.outcome.state = "resolved"
                THEN /\ last'.ret = "true"
                     /\ user' = [ id       |-> last'.outcome.value.payload.user_id,
                                  username |-> last'.outcome.value.payload.username,
                                  interest |-> last'.outcome.value.payload.interest,
                                  level    |-> last'.outcome.value.payload.level ]
                ELSE /\ last'.ret = "false"
                     /\ user' = user
                     /\ ls' = ls ]_vars

\* A login that failed while a session existed.
C6_Witness ==
    /\ last.op = "login" /\ last.ret = "false"
    /\ user # NoUser

\* C7: on the home page with no getAdvice in flight, the error panel is shown
\* exactly when the most recently started getAdvice failed and the advice or
\* message panel exactly when it succeeded.
C7_LatestFetchShown ==
    ( /\ page = "home" /\ user # NoUser /\ Quiet
      /\ latestFetch \in { "succeeded", "failed" }
      /\ \A i \in 1..Len(inflight) : inflight[i].kind # "getAdvice" ) =>
        /\ ErrorPanel(local) <=> latestFetch = "failed"
        /\ AdvicePanel(local) <=> latestFetch = "succeeded"

C13_UpdateProfile ==
    [][ last'.op = "updateProfile" =>
          IF last'.outcome = NullObject
            THEN /\ user' = user /\ ls' = ls
                 /\ IF user = NoUser
                       THEN /\ last'.ret = "false"
                            /\ last'.issued = << >>
                            /\ inflight' = inflight
                       ELSE /\ last'.ret = "none"
                            /\ last'.issued = << "updateProfile" >>
                            /\ Len(inflight') = Len(inflight) + 1
          ELSE IF last'.outcome.state = "resolved"
            THEN /\ last'.ret = "true"
                 /\ user' = [ id       |-> last'.form.user_id,
                              username |-> UsernameOf(last'.form.user_id),
                              interest |-> last'.form.interest,
                              level    |-> last'.form.level ]
                 /\ ls' = JSONstringify(user')
            ELSE /\ last'.ret = "false"
                 /\ user' = user
                 /\ ls' = ls ]_vars

\* updateProfile called without a session user: false, and nothing in flight.
C13_Witness ==
    /\ last.op = "updateProfile" /\ last.ret = "false" /\ last.outcome = NullObject
    /\ user = NoUser
    /\ inflight = << >>

\* C14: a login form submitted with an empty username or password issues no
\* call and shows the validation error; otherwise it issues exactly one login
\* call and navigates nowhere yet; "/" is pushed when login returned true,
\* with the session user set and stored, and the login page is left for "/"
\* only with a stored session user; when login returned false nothing is
\* pushed and the form, if still mounted, shows the error on /login.
C14_LoginForm ==
    [][ /\ last'.op = "LoginPage.handleSubmit" =>
              /\ last'.form.username = "" \/ last'.form.password = ""
              /\ last'.issued = << >>
              /\ inflight' = inflight
              /\ local'.error = LoginEmptyError
              /\ navTarget' = navTarget /\ page' = page
        /\ (last'.op = "login" /\ last'.ret = "none") =>
              /\ last'.form.username # "" /\ last'.form.password # ""
              /\ last'.issued = << "login" >>
              /\ Len(inflight') = Len(inflight) + 1
              /\ navTarget' = navTarget /\ page' = page
              /\ user' = user /\ ls' = ls
        /\ (last'.op = "login" /\ last'.ret = "true") =>
              /\ navTarget' = "home"
              /\ user' # NoUser
              /\ ls' = JSONstringify(user')
        /\ (last'.op = "login" /\ last'.ret = "false") =>
              /\ navTarget' = navTarget /\ page' = page
              /\ last'.form.live => (page' = "login" /\ local'.error = LoginFailedError)
        /\ (page = "login" /\ page' = "home") =>
              /\ user # NoUser
              /\ ls = JSONstringify(user) ]_vars

\* A rejected login: the form still shows /login, with the error.
C14_Witness ==
    /\ last.op = "login" /\ last.ret = "false" /\ last.form.live
    /\ page = "login" /\ navTarget = "none"
    /\ local.error = LoginFailedError

\* C15: a signup form submitted issues the register call exactly when the
\* three text fields are non-empty, the password equals its confirmation, the
\* interest is not blank and a difficulty is selected; otherwise no call is
\* issued and the error shown is that of the first of these checks, in this
\* order, that fails; the interest sent is the trimmed one.
C15_SignupForm ==
    [][ \A f \in SignupForms :
          ( /\ last'.form = f
            /\ last'.ret = "none"
            /\ last'.op \in { "signup", "SignupPage.handleSubmit" } ) =>
              LET filled   == f.username # "" /\ f.password # "" /\ f.confirmPassword # ""
                  same     == f.password = f.confirmPassword
                  interest == f.interest \notin { "", " " }
                  selected == f.difficulty # ""
                  called   == last'.issued # << >>
              IN  /\ called <=> (filled /\ same /\ interest /\ selected)
                  /\ ~called => inflight' = inflight
                  /\ ~filled => local'.error = SignupEmptyError
                  /\ (filled /\ ~same) => local'.error = SignupMismatch
                  /\ (filled /\ same /\ ~interest) => local'.error = SignupNoInterest
                  /\ (filled /\ same /\ interest /\ ~selected) =>
                        local'.error = SignupNoDifficulty
                  /\ called =>
                        /\ last'.issued = << "register" >>
                        /\ \E i \in 1..Len(inflight') :
                              LET sent == inflight'[i].arg
                              IN  /\ Remove(inflight', i) = inflight
                                  /\ inflight'[i].kind = "register"
                                  /\ sent.text = f.username /\ sent.level = f.difficulty
                                  /\ f.interest = " RAG " => sent.interest = "RAG" ]_vars

\* A form with a blank interest and no difficulty: the interest's error shows.
C15_Witness ==
    /\ last.op = "SignupPage.handleSubmit"
    /\ last.form.username # "" /\ last.form.password = last.form.confirmPassword
    /\ last.form.interest = " " /\ last.form.difficulty = ""
    /\ page = "signup" /\ local.error = SignupNoInterest

\* C16: when a fetch of the recommendations page has succeeded with a list of
\* n papers, the cards displayed are the first min(3, n) papers of that list,
\* in its order; never more than three cards are displayed.
C16_FirstThreeDisplayed ==
    [][ /\ (last'.op = "fetchRecommendations" /\ last'.outcome.state = "resolved") =>
              LET served == last'.outcome.value.payload.papers
                  n      == IF Len(served) < 3 THEN Len(served) ELSE 3
              IN  DisplayedPapers(local') = [ k \in 1..n |-> served[k] ]
        /\ page' = "recommendations" => Len(DisplayedPapers(local')) <= 3 ]_vars

\* What holds of C16: a fetch that has succeeded leaves in `papers` the first
\* min(3, n) papers served, in order, and no more than three cards are ever
\* displayed; the cards are those papers when no error is held.
C16_FirstThreeKept ==
    [][ /\ (last'.op = "fetchRecommendations" /\ last'.outcome.state = "resolved") =>
              LET served == last'.outcome.value.payload.papers
                  n      == IF Len(served) < 3 THEN Len(served) ELSE 3
              IN  /\ local'.papers = [ k \in 1..n |-> served[k] ]
                  /\ local'.error = Null =>
                        DisplayedPapers(local') = [ k \in 1..n |-> served[k] ]
        /\ page' = "recommendations" => Len(DisplayedPapers(local')) <= 3 ]_vars

\* Four papers were served and three cards are displayed.
C16_Witness ==
    /\ page = "recommendations"
    /\ last.op = "fetchRecommendations" /\ last.outcome.state = "resolved"
    /\ Len(last.outcome.value.payload.papers) = 4
    /\ Len(DisplayedPapers(local)) = 3

\* C17: handleSend with a blank input or while isLoading issues no call and
\* appends nothing; otherwise it appends the user's message, clears the input
\* and issues one chatWithPaper call; when that call settles one assistant
\* message is appended, the answer served or the apology.
C17_SendSteps ==
    [][ /\ (last'.op = "ChatPage.handleSend" /\ last'.outcome = NullObject) =>
              IF local.input \in { "", " " } \/ local.isLoading
                  THEN /\ last'.issued = << >>
                       /\ inflight' = inflight
                       /\ local' = local
                  ELSE /\ last'.issued = << "chatWithPaper" >>
                       /\ Len(inflight') = Len(inflight) + 1
                       /\ local'.messages = local.messages \o
                              << [ role |-> "user", content |-> local.input ] >>
                       /\ local'.input = ""
        /\ (last'.op = "ChatPage.handleSend" /\ last'.outcome # NullObject) =>
              /\ Len(inflight') = Len(inflight) - 1
              /\ local'.messages = local.messages \o
                     << [ role |-> "assistant",
                          content |-> IF last'.outcome.state = "resolved"
                                          THEN last'.outcome.value.payload.answer
                                          ELSE SendFailedAnswer ] >> ]_vars

\* C17, its conclusion: when the call of an accepted send has settled, the
\* message list ends with the user's message and then the assistant's.
C17_SendGrowsByTwo ==
    [][ (last'.op = "ChatPage.handleSend" /\ last'.outcome # NullObject) =>
          \E i \in 1..Len(inflight) :
              /\ inflight[i].kind = "chatWithPaper"
              /\ inflight' = Remove(inflight, i)
              /\ Len(local'.messages) >= 2
              /\ local'.messages[Len(local'.messages)].role = "assistant"
              /\ local'.messages[Len(local'.messages) - 1] =
                     [ role |-> "user", content |-> inflight[i].arg.text ] ]_vars

\* A send whose call was rejected: the question, then the apology.
C17_Witness ==
    /\ page = "chat"
    /\ last.op = "ChatPage.handleSend" /\ last.outcome # NullObject
    /\ last.outcome.state = "rejected"
    /\ Len(local.messages) >= 2
    /\ local.messages[Len(local.messages)] =
           [ role |-> "assistant", content |-> SendFailedAnswer ]
    /\ local.messages[Len(local.messages) - 1].role = "user"

\* C18: when the chat page's fetch resolves with a chat_history of n >= 1
\* entries the message list has length 2n, entry k giving the user's question
\* and then the assistant's answer, in the order served; with an empty
\* chat_history the list is the one greeting of the assistant; when the fetch
\* rejects the list is as it was and the error is set.
C18_ChatHistoryLoad ==
    [][ last'.op = "fetchPaperInfo" =>
          IF last'.outcome.state = "resolved"
              THEN LET h == last'.outcome.value.payload.chat_history
                       n == Len(h)
                   IN  IF n >= 1
                          THEN /\ Len(local'.messages) = 2 * n
                               /\ \A k \in 1..n :
                                     /\ local'.messages[2 * k - 1] =
                                            [ role |-> "user", content |-> h[k].question ]
                                     /\ local'.messages[2 * k] =
                                            [ role |-> "assistant", content |-> h[k].answer ]
                          ELSE local'.messages =
                                   << [ role |-> "assistant", content |-> Greeting ] >>
              ELSE /\ local'.messages = local.messages
                   /\ local'.error # Null ]_vars

\* A history of two entries was served: four messages.
C18_Witness ==
    /\ page = "chat"
    /\ last.op = "fetchPaperInfo" /\ last.outcome.state = "resolved"
    /\ Len(last.outcome.value.payload.chat_history) = 2
    /\ Len(local.messages) = 4

C21_LogoutSticky ==
    [][ (user = NoUser /\ ls = NoEntry) =>
            \/ user' = NoUser /\ ls' = NoEntry
            \/ last'.op \in { "login", "signup" } /\ last'.ret = "true" ]_vars

\* Logged out, with the answer to a profile update still to come.
C21_Witness ==
    /\ user = NoUser /\ ls = NoEntry
    /\ \E i \in 1..Len(inflight) : inflight[i].kind = "updateProfile"

\* C22: when the application is mounted on a protected page with a "user"
\* entry in localStorage, the mount restores that user, pushes no navigation
\* to /login, and the page stays.
C22_ReloadKeepsPage ==
    [][ (phase = "mounting" /\ ls # NoEntry /\ page \in ProtectedPages) =>
            /\ user' = persisted
            /\ navTarget' # "login"
            /\ page' = page ]_vars

\* Mounted on a protected page with the stored user restored.
C22_Witness ==
    /\ phase = "restored"
    /\ page \in ProtectedPages
    /\ user # NoUser /\ ls = JSONstringify(user)

\* C23: applied to a session user, updateInterest changes only the interest
\* of the session user of that moment, updateLevel only the level, and
\* updateProfile only the interest and the level; the id, the username and the
\* field not given keep the values they have at that moment.
C23_NarrowFrame ==
    [][ user # NoUser =>
          /\ last'.op = "updateInterest" =>
                user' = [ user EXCEPT !.interest = last'.form.text ]
          /\ last'.op = "updateLevel" =>
                user' = [ user EXCEPT !.level = last'.form.text ]
          /\ (last'.op = "updateProfile" /\ last'.ret = "true") =>
                user' = [ user EXCEPT !.interest = last'.form.interest,
                                      !.level = last'.form.level ] ]_vars

\* A profile update was applied while an accepted advice, clicked when the
\* level was another, is still to be answered.
C23_Witness ==
    /\ last.op = "updateProfile" /\ last.ret = "true"
    /\ user # NoUser
    /\ \E i \in 1..Len(inflight) :
          /\ inflight[i].kind = "acceptInterestChange"
          /\ inflight[i].cap.level # user.level

\* C24: the request the home page's handleAddPaper issues carries the typed
\* arXiv id as arxiv_id and the session user's id as user_id.
C24_AddPaperBody ==
    [][ (last'.op = "HomePage.handleAddPaper" /\ last'.issued # << >>) =>
          \E i \in 1..Len(inflight') :
             /\ Remove(inflight', i) = inflight
             /\ inflight'[i].kind = "addPaperByArxivId"
             /\ inflight'[i].arg.text = local.arxivId
             /\ inflight'[i].arg.user_id = user.id ]_vars

\* An add-paper request in flight with the typed arXiv id.
C24_Witness ==
    /\ page = "home" /\ user # NoUser
    /\ \E i \in 1..Len(inflight) :
          /\ inflight[i].kind = "addPaperByArxivId"
          /\ inflight[i].arg.text = "2005.11401"

\* C25: the success message of handleSave is shown only when updateProfile
\* returned true and the session user has the submitted interest and level.
C25_SaveFeedback ==
    [][ (\E k \in 1..Len(last'.alerts) : last'.alerts[k] = ProfileSaved) =>
            /\ last'.op = "updateProfile" /\ last'.ret = "true"
            /\ user' # NoUser
            /\ user'.interest = last'.form.interest
            /\ user'.level = last'.form.level ]_vars

\* A save whose call was rejected, on the profile page.
C25_Witness ==
    /\ page = "mypage" /\ user # NoUser
    /\ last.op = "updateProfile" /\ last.ret = "false"
    /\ last.outcome # NullObject
    /\ last.outcome.state = "rejected"

\* C26: on the profile page of a logged-in user with nothing pending,
\* hasChanges is true exactly when the interest input differs from the session
\* user's interest or the difficulty selected from the session user's level.
C26_HasChanges ==
    ( /\ page = "mypage" /\ user # NoUser /\ Quiet
      /\ inflight = << >> ) =>
        ( local.hasChanges <=>
            (local.interestInput # user.interest \/ local.difficulty # user.level) )

\* The profile page with a changed input and the save button shown.
C26_Witness ==
    /\ page = "mypage" /\ user # NoUser /\ Quiet
    /\ inflight = << >>
    /\ local.interestInput # user.interest
    /\ local.hasChanges

\* C27: on the chat page at most one chatWithPaper request is in flight: a
\* send before the first request has settled issues no second one.
C27_OneChatInFlight ==
    page = "chat" =>
        Cardinality({ i \in 1..Len(inflight) : inflight[i].kind = "chatWithPaper" }) <= 1

\* What holds of C27: the chat page that is mounted has at most one
\* chatWithPaper request of its own in flight, and its handleSend called
\* while isLoading issues none and appends nothing.
C27_OneChatPerPage ==
    [][ /\ page' = "chat" =>
              Cardinality({ i \in 1..Len(inflight') :
                              inflight'[i].kind = "chatWithPaper" /\ inflight'[i].live }) <= 1
        /\ ( /\ last'.op = "ChatPage.handleSend" /\ last'.outcome = NullObject
              /\ local.isLoading ) =>
              (inflight' = inflight /\ local' = local) ]_vars

\* A send while the page's question is in flight: nothing is issued.
C27_Witness ==
    /\ page = "chat"
    /\ last.op = "ChatPage.handleSend" /\ last.outcome = NullObject
    /\ last.issued = << >>
    /\ local.isLoading
    /\ \E i \in 1..Len(inflight) : inflight[i].kind = "chatWithPaper" /\ inflight[i].live

\* C8: the history page of a logged-in user shows exactly one of its four
\* panels, and never the loading and the error panel together.
C8_OneHistoryPanel ==
    (page = "history" /\ user # NoUser) =>
        /\ Cardinality(HistoryPanels(local)) = 1
        /\ ~({ "loading", "error" } \subseteq HistoryPanels(local))

\* The error of one fetch is shown while a later fetch is still in flight.
C8_Witness ==
    /\ page = "history" /\ user # NoUser
    /\ HistoryPanels(local) = { "error" }
    /\ \E i \in 1..Len(inflight) : inflight[i].kind = "getPapersHistory"

(***************************************************************************)
(* Graph renderer properties (SpecGraph)                                   *)
(***************************************************************************)

\* Whether a laid-out node has the id.
C10_LaidOut(id) == \E k \in 1..Len(allNodePositions) : allNodePositions[k].id = id

\* C10: an edge is drawn exactly when its source and its target are ids of
\* laid-out nodes, and a drawn line runs from the position of a node with the
\* source id to the position of a node with the target id.
C10_EdgeMapping ==
    rendered =>
        /\ Len(lines) = Len(edges)
        /\ \A i \in 1..Len(edges) :
              /\ lines[i] # NullObject <=>
                    C10_LaidOut(edges[i].source) /\ C10_LaidOut(edges[i].target)
              /\ lines[i] # NullObject =>
                    \E s, t \in 1..Len(allNodePositions) :
                       /\ allNodePositions[s].id = edges[i].source
                       /\ allNodePositions[t].id = edges[i].target
                       /\ lines[i].x1 = allNodePositions[s].x
                       /\ lines[i].y1 = allNodePositions[s].y
                       /\ lines[i].x2 = allNodePositions[t].x
                       /\ lines[i].y2 = allNodePositions[t].y

\* An edge drawn between two nodes at different places.
C10_Witness ==
    /\ rendered
    /\ \E i \in 1..Len(edges) :
          /\ lines[i] # NullObject
          /\ edges[i].source # edges[i].target
          /\ <<lines[i].x1, lines[i].y1>> # <<lines[i].x2, lines[i].y2>>

\* The number of input nodes of the type before the j-th input node.
C20_Before(j, type) == Cardinality({ k \in 1..(j - 1) : nodes[k].type = type })

\* Where the j-th input node is laid out: the recommended nodes first, in
\* input order, then the common references, in input order.
C20_Place(j) ==
    IF nodes[j].type = "recommended"
        THEN C20_Before(j, "recommended") + 1
        ELSE C20_Before(Len(nodes) + 1, "recommended") + C20_Before(j, "common_reference") + 1

\* C20: every recommended input node is laid out once, at
\* (100 + 120 i, 150) for the i-th (from 0) of the recommended nodes in input
\* order, and every common reference once, at (200, 50); a line's ends are
\* those of the first laid-out nodes with the edge's ids, the recommended
\* nodes coming before the common references.
C20_Layout ==
    rendered =>
        /\ Len(allNodePositions) = Len(nodes)
        /\ \A j \in 1..Len(nodes) :
              LET at == allNodePositions[C20_Place(j)]
              IN  /\ at.id = nodes[j].id /\ at.title = nodes[j].title
                  /\ at.type = nodes[j].type
                  /\ nodes[j].type = "recommended" =>
                        /\ at.x = 100 + 120 * C20_Before(j, "recommended")
                        /\ at.y = 150
                  /\ nodes[j].type = "common_reference" => (at.x = 200 /\ at.y = 50)
        /\ \A j, k \in 1..Len(nodes) : j # k => C20_Place(j) # C20_Place(k)
        /\ \A i \in 1..Len(edges) :
              lines[i] # NullObject =>
                  \E s, t \in 1..Len(allNodePositions) :
                     /\ allNodePositions[s].id = edges[i].source
                     /\ \A q \in 1..(s - 1) : allNodePositions[q].id # edges[i].source
                     /\ allNodePositions[t].id = edges[i].target
                     /\ \A q \in 1..(t - 1) : allNodePositions[q].id # edges[i].target
                     /\ lines[i].x1 = allNodePositions[s].x /\ lines[i].y1 = allNodePositions[s].y
                     /\ lines[i].x2 = allNodePositions[t].x /\ lines[i].y2 = allNodePositions[t].y
                     /\ (\E j \in 1..Len(nodes) : /\ nodes[j].id = edges[i].source
                                                   /\ nodes[j].type = "recommended")
                           => lines[i].y1 = 150

\* A common reference given before two recommended nodes, one of them with
\* the common reference's id, and a line drawn from that id: the row has a
\* second place, and the line starts on the row.
C20_Witness ==
    /\ rendered
    /\ Len(nodes) >= 3
    /\ nodes[1].type = "common_reference"
    /\ Cardinality({ j \in 1..Len(nodes) : nodes[j].type = "recommended" }) >= 2
    /\ \E j \in 2..Len(nodes) :
          /\ nodes[j].type = "recommended" /\ nodes[j].id = nodes[1].id
          /\ \E i \in 1..Len(edges) :
                /\ edges[i].source = nodes[1].id
                /\ lines[i] # NullObject
                /\ lines[i].y1 = 150
    /\ \E k \in 1..Len(allNodePositions) : allNodePositions[k].x = 220

\* C28: no two laid-out nodes share their position (x, y).
C28_DistinctPositions ==
    rendered =>
        \A s, t \in 1..Len(allNodePositions) :
            s # t => << allNodePositions[s].x, allNodePositions[s].y >>
                         # << allNodePositions[t].x, allNodePositions[t].y >>

\* Two common references were laid out.
C28_Witness ==
    /\ rendered
    /\ Cardinality({ k \in 1..Len(allNodePositions) :
                       allNodePositions[k].type = "common_reference" }) >= 2

\* C29: the centre of every laid-out node is inside the viewBox 0 0 400 200.
C29_InsideCanvas ==
    rendered =>
        \A k \in 1..Len(allNodePositions) :
            /\ 0 <= allNodePositions[k].x /\ allNodePositions[k].x <= 400
            /\ 0 <= allNodePositions[k].y /\ allNodePositions[k].y <= 200

\* Four recommended nodes were laid out.
C29_Witness ==
    /\ rendered
    /\ Cardinality({ k \in 1..Len(allNodePositions) :
                       allNodePositions[k].type = "recommended" }) >= 4

(***************************************************************************)
(* Busy flags (FairSpec)                                                   *)
(***************************************************************************)

\* The busy flags of the pages.
BusyFlags ==
    { << "home", "isLoading" >>, << "recommendations", "isLoading" >>,
      << "history", "isLoading" >>, << "paper", "isLoading" >>,
      << "chat", "isFetchingPaper" >>, << "chat", "isLoading" >>,
      << "home", "isAddingPaper" >>, << "home", "isAddingToCalendar" >> }

\* The page is mounted with the flag up.
Busy(pf) == page = pf[1] /\ local[pf[2]]

\* C9: when every request that holds a busy flag up is answered, no busy
\* flag stays up for ever: each one is down again at some later time, whether
\* the request succeeded or failed.
C9_BusyFlagsFall == \A pf \in BusyFlags : []<>(~Busy(pf))

\* A failed add-paper request has brought isAddingPaper down again.
C9_Witness ==
    /\ page = "home" /\ user # NoUser
    /\ last.op = "HomePage.handleAddPaper" /\ last.alerts = << AddPaperFailed >>
    /\ ~local.isAddingPaper /\ ~local.isLoading

====
